---- MODULE Spec2Model ----
(***************************************************************************)
(* GroupsService of apps/api (groups.service.ts): the persisted group      *)
(* records, the cached Merkle trees, the queue of pending contract updates *)
(* and the asynchronous calls that work on them.  Every await of the       *)
(* service is a point where another call, the bootstrap of the constructor *)
(* or a timer may run.                                                     *)
(***************************************************************************)
EXTENDS Integers, Sequences, FiniteSets, TLC

(* ------------------------------ bounds -------------------------------- *)

\* Number of service calls (createGroup, updateGroup, addMember) ever started.
MaxCalls == 3

\* Call slots: the calls that may be suspended at an await at the same time.
Slots == {"a", "b"}

Groups == {"g1", "g2"}
Admins == {"alice", "bob"}
\* Member strings as they arrive in an addMember request; "0x1" denotes the
\* identity commitment that the persisted member "1" denotes.
Members == {"0x1", "2"}
InviteCodes == {"c1", "c2"}

\* The inputs the model draws createGroup and updateGroup calls from.
CreateDtos == {[description |-> "d1", treeDepth |-> 1, tag |-> "t1"]}
CreateAdmins == {"alice"}
UpdateDtos == {[description |-> "d2", treeDepth |-> 2, tag |-> "t2"]}

(* ---------------------- conversions and identifiers ------------------- *)

\* BigInt(member): the numeric value of a member string.
BigIntOf(m) ==
    CASE m = "1" -> 1
      [] m = "0x1" -> 1
      [] m = "2" -> 2

\* BigInt(id(name)): the hash of the group name as a number.
GroupId(name) ==
    CASE name = "g1" -> 101
      [] name = "g2" -> 102

(* ------------------- CachedGroup (the Merkle tree) -------------------- *)

\* Depth of a tree built without an explicit depth: new Group(id) defaults
\* its second parameter (20 in the library, scaled down here).
DefaultTreeDepth == 2

\* new CachedGroup(id, treeDepth): an empty tree whose zero value derives
\* from id.
NewCachedGroup(id, treeDepth) ==
    [id |-> id, depth |-> treeDepth, leaves |-> <<>>]

\* new CachedGroup(x) with one argument: x is taken as the id and the depth is
\* the default.
NewCachedGroup1(x) == NewCachedGroup(x, DefaultTreeDepth)

Capacity(t) == 2 ^ t.depth

\* The tree rejects an insertion when all 2^depth leaves are used.
IsFull(t) == Len(t.leaves) >= Capacity(t)

\* cachedGroup.addMember(member): the leaf BigInt(member) appended.
TreeAddMember(t, m) == [t EXCEPT !.leaves = Append(@, BigIntOf(m))]

\* cachedGroup.addMembers(members), defined while the members fit.
RECURSIVE TreeAddMembers(_, _)
TreeAddMembers(t, ms) ==
    IF ms = <<>> THEN t
    ELSE TreeAddMembers(TreeAddMember(t, Head(ms)), Tail(ms))

\* cachedGroup.indexOf(leaf): the 0-based index of the first leaf equal to
\* leaf, -1 when there is none.
IndexOf(t, leaf) ==
    IF \E i \in 1..Len(t.leaves) : t.leaves[i] = leaf
    THEN (CHOOSE i \in 1..Len(t.leaves) :
              /\ t.leaves[i] = leaf
              /\ \A j \in 1..(i - 1) : t.leaves[j] # leaf) - 1
    ELSE -1

\* Node values are sequences of integers: a leaf, the zero value of the tree
\* and the hash of two children are never confused with one another.
LeafNode(v) == <<v>>
ZeroNode(id) == <<0, id>>
HashNodes(l, r) == <<-1>> \o l \o <<-2>> \o r \o <<-3>>

\* The node at (level, index) of the tree, index counted from 0.
RECURSIVE NodeAt(_, _, _)
NodeAt(t, level, i) ==
    IF level = 0
    THEN IF i < Len(t.leaves) THEN LeafNode(t.leaves[i + 1]) ELSE ZeroNode(t.id)
    ELSE HashNodes(NodeAt(t, level - 1, 2 * i), NodeAt(t, level - 1, 2 * i + 1))

\* cachedGroup.root
Root(t) == NodeAt(t, t.depth, 0)

\* cachedGroup.generateMerkleProof(index): leaf, siblings and path of the
\* leaf at index, with the root of the tree.
TreeMerkleProof(t, index) ==
    [root |-> Root(t),
     leaf |-> t.leaves[index + 1],
     siblings |-> [l \in 1..t.depth |->
                     LET at == index \div (2 ^ (l - 1))
                     IN  NodeAt(t, l - 1, IF at % 2 = 0 THEN at + 1 ELSE at - 1)],
     pathIndices |-> [l \in 1..t.depth |-> (index \div (2 ^ (l - 1))) % 2]]

\* The root a verifier recomputes from a proof.
RECURSIVE FoldProof(_, _, _)
FoldProof(p, node, l) ==
    IF l > Len(p.siblings) THEN node
    ELSE FoldProof(p,
                   IF p.pathIndices[l] = 0
                   THEN HashNodes(node, p.siblings[l])
                   ELSE HashNodes(p.siblings[l], node),
                   l + 1)

ProofRoot(p) == FoldProof(p, LeafNode(p.leaf), 1)

(* ------------------------------- state -------------------------------- *)

VARIABLES
    store,          \* groupRepository: group name -> persisted record
    cachedGroups,   \* this.cachedGroups: group name -> cached tree
    updatedGroups,  \* this.updatedGroups: the queue of pending contract updates
    invites,        \* the invite codes not redeemed yet, as <<code, group>>
    timeouts,       \* schedulerRegistry: "none", "pending" or "fired"
    ledger,         \* the batches handed to zkGroups.updateGroups, with outcome
    boot,           \* the asynchronous load started by the constructor
    calls,          \* the calls of the service, one per slot
    last,           \* the call that ended last, with its result
    started,        \* number of calls started so far
    accepted,       \* <<group, member>> of every addMember that passed its check
    returned        \* <<group, member>> of every addMember that returned a group

vars == <<store, cachedGroups, updatedGroups, invites, timeouts, ledger, boot,
          calls, last, started, accepted, returned>>

NoDto == [description |-> "", treeDepth |-> 0, tag |-> ""]

\* No entity loaded or created yet.
NoEntity ==
    [description |-> "", treeDepth |-> 0, tag |-> "", admin |-> "", members |-> <<>>]

IdleCall ==
    [op |-> "idle", pc |-> "done", name |-> "", member |-> "", code |-> "",
     admin |-> "", dto |-> NoDto, group |-> NoEntity]

NoResult == [op |-> "idle", name |-> "", member |-> "", result |-> "none"]

\* The record a previous run of createGroup and addMember left in the store.
PersistedGroup ==
    [description |-> "d1", treeDepth |-> 1, tag |-> "t1", admin |-> "alice",
     members |-> <<"1">>]

\* The stores the service may be constructed on.
InitStores == { [n \in {} |-> NoEntity], [n \in {"g1"} |-> PersistedGroup] }

\* The call c ends in slot s: with a returned value ("ok") or with the
\* exception it threw.
Ends(s, c, result) ==
    /\ calls' = [calls EXCEPT ![s] = IdleCall]
    /\ last' = [op |-> c.op, name |-> c.name, member |-> c.member, result |-> result]

\* A new call takes the first slot that holds no suspended call.
Free(s) ==
    /\ calls[s].pc = "done"
    /\ started < MaxCalls
    /\ s = "b" => calls["a"].pc # "done"

\* The constructor: empty map, empty queue, getAllGroups() issued and awaited.
Init ==
    /\ store \in InitStores
    /\ cachedGroups = [n \in {} |-> NewCachedGroup(0, 0)]
    /\ updatedGroups = <<>>
    /\ invites = InviteCodes \X Groups
    /\ timeouts = "none"
    /\ ledger = <<>>
    /\ boot = [pc |-> "find", groups |-> [n \in {} |-> NoEntity]]
    /\ calls = [s \in Slots |-> IdleCall]
    /\ last = NoResult
    /\ started = 0
    /\ accepted = <<>>
    /\ returned = <<>>

(* ------------------------------ bootstrap ----------------------------- *)

\* groupRepository.find() of the constructor reads the store.
BootFind ==
    /\ boot.pc = "find"
    /\ boot' = [pc |-> "loaded", groups |-> store]
    /\ UNCHANGED <<store, cachedGroups, updatedGroups, invites, timeouts, ledger,
                   calls, last, started, accepted, returned>>

\* The tree the constructor builds for one persisted group.
BootTree(name, group) ==
    TreeAddMembers(NewCachedGroup(GroupId(name), group.treeDepth), group.members)

\* addMembers throws when the persisted members do not fit the tree.
BootFits(group) == Len(group.members) <= 2 ^ group.treeDepth

\* The map after the loop over the groups in the given order; the loop stops at
\* the first group whose tree cannot be built.
RECURSIVE BootLoop(_, _, _)
BootLoop(cache, groups, order) ==
    IF order = <<>> \/ ~BootFits(groups[Head(order)]) THEN cache
    ELSE BootLoop([n \in DOMAIN cache \cup {Head(order)} |->
                      IF n = Head(order) THEN BootTree(n, groups[n]) ELSE cache[n]],
                  groups, Tail(order))

\* The orders in which find() may return the groups.
Orders(S) ==
    {o \in [1..Cardinality(S) -> S] : \A i, j \in 1..Cardinality(S) : i # j => o[i] # o[j]}

\* The constructor resumes after the await and fills the map.
BootLoad ==
    /\ boot.pc = "loaded"
    /\ \E order \in Orders(DOMAIN boot.groups) :
          /\ cachedGroups' = BootLoop(cachedGroups, boot.groups, order)
          /\ boot' = [pc |-> IF \A n \in DOMAIN boot.groups : BootFits(boot.groups[n])
                             THEN "done" ELSE "failed",
                      groups |-> [n \in {} |-> NoEntity]]
    /\ UNCHANGED <<store, updatedGroups, invites, timeouts, ledger, calls, last,
                   started, accepted, returned>>

(* ------------------------- reads of the cache -------------------------- *)

\* isGroupMember(groupName, member); it throws a TypeError when the map has no
\* tree for groupName (HasTree is false).
HasTree(name) == name \in DOMAIN cachedGroups

isGroupMember(name, member) == IndexOf(cachedGroups[name], BigIntOf(member)) # -1

\* generateMerkleProof(groupName, member) returns a proof (the other outcome
\* is an exception).
ProofSucceeds(name, member) == HasTree(name) /\ isGroupMember(name, member)

generateMerkleProof(name, member) ==
    TreeMerkleProof(cachedGroups[name], IndexOf(cachedGroups[name], BigIntOf(member)))

(* ------------------------- contract publication ------------------------ *)

\* The entry as it would be with the id read from the tree instead of being
\* computed from the name of the group.
UpdateEntryTreeId(name, t) == [id |-> t.id, fingerprint |-> Root(t)]

\* The entry addMember queues for a group whose tree is t.
UpdateEntry(name, t) == [id |-> GroupId(name), fingerprint |-> Root(t)]

\* updateContractGroups() up to its await, on the queue q: a non-empty queue
\* is handed to zkGroups.updateGroups.
UpdateContractGroupsCall(q) ==
    IF Len(q) > 0
    THEN ledger' = Append(ledger, [batch |-> q, outcome |-> "pending"])
    ELSE UNCHANGED ledger

\* ScheduleModule registers the @Timeout of updateContractGroups when the
\* application has been initialised; the registry keeps it after it has fired.
MountTimeouts ==
    /\ timeouts = "none"
    /\ timeouts' = "pending"
    /\ UNCHANGED <<store, cachedGroups, updatedGroups, invites, ledger, boot, calls, last,
                   started, accepted, returned>>

\* The timeout fires, once: updateContractGroups() runs up to its await.
TimeoutFires ==
    /\ timeouts = "pending"
    /\ timeouts' = "fired"
    /\ UpdateContractGroupsCall(updatedGroups)
    /\ UNCHANGED <<store, cachedGroups, updatedGroups, invites, boot, calls, last,
                   started, accepted, returned>>

\* zkGroups.updateGroups resolves with a transaction (status true or false):
\* updateContractGroups resumes and empties the queue.
LedgerResolves(i, status) ==
    /\ i \in 1..Len(ledger)
    /\ ledger[i].outcome = "pending"
    /\ ledger' = [ledger EXCEPT ![i].outcome = IF status THEN "success" ELSE "failure"]
    /\ updatedGroups' = <<>>
    /\ UNCHANGED <<store, cachedGroups, invites, timeouts, boot, calls, last,
                   started, accepted, returned>>

\* zkGroups.updateGroups rejects: updateContractGroups ends with the exception,
\* which no caller awaits.
LedgerRejects(i) ==
    /\ i \in 1..Len(ledger)
    /\ ledger[i].outcome = "pending"
    /\ ledger' = [ledger EXCEPT ![i].outcome = "rejected"]
    /\ UNCHANGED <<store, cachedGroups, updatedGroups, invites, timeouts, boot, calls, last,
                   started, accepted, returned>>

(* ------------------------------ the store ------------------------------ *)

\* The store with the record of name written.
Saved(name, group) ==
    [n \in DOMAIN store \cup {name} |-> IF n = name THEN group ELSE store[n]]

\* The uniqueness constraint on the name column: inserting a second record
\* with a name the store already holds is refused.
NameTaken(name) == name \in DOMAIN store

\* groupRepository.save fails for a cause of the store (connection, timeout).
SaveFails(s) ==
    /\ calls[s].pc = "save"
    /\ Ends(s, calls[s], "StoreError")
    /\ UNCHANGED <<store, cachedGroups, updatedGroups, invites, timeouts, ledger,
                   boot, started, accepted, returned>>

(* ------------------------------ createGroup ---------------------------- *)

\* createGroup as it would be with the tree registered before the save is
\* awaited.
CreateGroupCallTreeFirst(s, dto, name, admin) ==
    /\ Free(s)
    /\ calls' = [calls EXCEPT ![s] =
          [IdleCall EXCEPT !.op = "createGroup", !.pc = "save", !.name = name,
                           !.admin = admin, !.dto = dto,
                           !.group = [description |-> dto.description,
                                      treeDepth |-> dto.treeDepth,
                                      tag |-> dto.tag,
                                      admin |-> admin,
                                      members |-> <<>>]]]
    /\ cachedGroups' =
          [n \in DOMAIN cachedGroups \cup {name} |->
              IF n = name THEN NewCachedGroup1(dto.treeDepth) ELSE cachedGroups[n]]
    /\ started' = started + 1
    /\ UNCHANGED accepted
    /\ UNCHANGED <<store, updatedGroups, invites, timeouts, ledger, boot, last,
                   returned>>

\* createGroup up to its await: the entity is created and save is issued.
CreateGroupCall(s, dto, name, admin) ==
    /\ Free(s)
    /\ calls' = [calls EXCEPT ![s] =
          [IdleCall EXCEPT !.op = "createGroup", !.pc = "save", !.name = name,
                           !.admin = admin, !.dto = dto,
                           !.group = [description |-> dto.description,
                                      treeDepth |-> dto.treeDepth,
                                      tag |-> dto.tag,
                                      admin |-> admin,
                                      members |-> <<>>]]]
    /\ started' = started + 1
    /\ UNCHANGED accepted
    /\ UNCHANGED <<store, cachedGroups, updatedGroups, invites, timeouts, ledger,
                   boot, last, returned>>

\* The store inserts the new record, or refuses it because the name is taken.
CreateGroupSave(s) ==
    /\ calls[s].op = "createGroup" /\ calls[s].pc = "save"
    /\ IF NameTaken(calls[s].name)
       THEN /\ Ends(s, calls[s], "AlreadyExists")
            /\ UNCHANGED store
       ELSE /\ store' = Saved(calls[s].name, calls[s].group)
            /\ calls' = [calls EXCEPT ![s].pc = "saved"]
            /\ UNCHANGED last
    /\ UNCHANGED <<cachedGroups, updatedGroups, invites, timeouts, ledger, boot,
                   started, accepted, returned>>

\* createGroup after its await: the new tree is put in the map.
CreateGroupResume(s) ==
    /\ calls[s].op = "createGroup" /\ calls[s].pc = "saved"
    /\ cachedGroups' =
          [n \in DOMAIN cachedGroups \cup {calls[s].name} |->
              IF n = calls[s].name THEN NewCachedGroup1(calls[s].dto.treeDepth)
              ELSE cachedGroups[n]]
    /\ Ends(s, calls[s], "ok")
    /\ UNCHANGED <<store, updatedGroups, invites, timeouts, ledger, boot,
                   started, accepted, returned>>

(* ------------------------------ updateGroup ---------------------------- *)

\* updateGroup up to its first await: getGroup is issued.
UpdateGroupCall(s, dto, name, admin) ==
    /\ Free(s)
    /\ calls' = [calls EXCEPT ![s] =
          [IdleCall EXCEPT !.op = "updateGroup", !.pc = "find", !.name = name,
                           !.admin = admin, !.dto = dto]]
    /\ started' = started + 1
    /\ UNCHANGED accepted
    /\ UNCHANGED <<store, cachedGroups, updatedGroups, invites, timeouts, ledger,
                   boot, last, returned>>

\* updateGroup as it would be without the comparison of the admin.
UpdateGroupFindAnyAdmin(s) ==
    /\ calls[s].op = "updateGroup" /\ calls[s].pc = "find"
    /\ IF calls[s].name \notin DOMAIN store THEN Ends(s, calls[s], "NotFound")
       ELSE /\ calls' = [calls EXCEPT
                  ![s].pc = "save",
                  ![s].group = [store[calls[s].name] EXCEPT
                                   !.description = calls[s].dto.description,
                                   !.treeDepth = calls[s].dto.treeDepth,
                                   !.tag = calls[s].dto.tag]]
            /\ UNCHANGED last
    /\ UNCHANGED <<store, cachedGroups, updatedGroups, invites, timeouts, ledger,
                   boot, started, accepted, returned>>

\* getGroup answers; updateGroup checks the admin, changes the loaded entity
\* and issues save.
UpdateGroupFind(s) ==
    /\ calls[s].op = "updateGroup" /\ calls[s].pc = "find"
    /\ IF calls[s].name \notin DOMAIN store THEN Ends(s, calls[s], "NotFound")
       ELSE IF store[calls[s].name].admin # calls[s].admin
            THEN Ends(s, calls[s], "Unauthorized")
            ELSE /\ calls' = [calls EXCEPT
                       ![s].pc = "save",
                       ![s].group = [store[calls[s].name] EXCEPT
                                        !.description = calls[s].dto.description,
                                        !.treeDepth = calls[s].dto.treeDepth,
                                        !.tag = calls[s].dto.tag]]
                 /\ UNCHANGED last
    /\ UNCHANGED <<store, cachedGroups, updatedGroups, invites, timeouts, ledger,
                   boot, started, accepted, returned>>

\* The store writes the entity; updateGroup returns it.
UpdateGroupSave(s) ==
    /\ calls[s].op = "updateGroup" /\ calls[s].pc = "save"
    /\ store' = Saved(calls[s].name, calls[s].group)
    /\ Ends(s, calls[s], "ok")
    /\ UNCHANGED <<cachedGroups, updatedGroups, invites, timeouts, ledger, boot,
                   started, accepted, returned>>

(* ------------------------------- addMember ----------------------------- *)

\* addMember as it would be with the leaf inserted and queued before the
\* invite is redeemed.
AddMemberCallInsertFirst(s, code, name, member) ==
    /\ Free(s)
    /\ LET c == [IdleCall EXCEPT !.op = "addMember", !.pc = "redeem",
                                  !.name = name, !.member = member, !.code = code]
       IN  IF ~HasTree(name)
           THEN Ends(s, c, "TypeError") /\ UNCHANGED <<cachedGroups, updatedGroups>>
           ELSE IF isGroupMember(name, member)
           THEN Ends(s, c, "BadRequest") /\ UNCHANGED <<cachedGroups, updatedGroups>>
           ELSE /\ calls' = [calls EXCEPT ![s] = c]
                /\ cachedGroups' =
                      [cachedGroups EXCEPT ![name] = TreeAddMember(@, member)]
                /\ updatedGroups' =
                      Append(updatedGroups,
                             UpdateEntry(name, TreeAddMember(cachedGroups[name], member)))
                /\ UNCHANGED last
    /\ started' = started + 1
    /\ accepted' = IF HasTree(name) /\ ~isGroupMember(name, member)
                   THEN Append(accepted, <<name, member>>)
                   ELSE accepted
    /\ UNCHANGED <<store, invites, timeouts, ledger, boot, returned>>

\* addMember up to its first await: the membership check on the cached tree,
\* then redeemInvite is issued.
AddMemberCall(s, code, name, member) ==
    /\ Free(s)
    /\ LET c == [IdleCall EXCEPT !.op = "addMember", !.pc = "redeem",
                                  !.name = name, !.member = member, !.code = code]
       IN  IF ~HasTree(name) THEN Ends(s, c, "TypeError")
           ELSE IF isGroupMember(name, member) THEN Ends(s, c, "BadRequest")
           ELSE calls' = [calls EXCEPT ![s] = c] /\ UNCHANGED last
    /\ started' = started + 1
    /\ accepted' = IF HasTree(name) /\ ~isGroupMember(name, member)
                   THEN Append(accepted, <<name, member>>)
                   ELSE accepted
    /\ UNCHANGED <<store, cachedGroups, updatedGroups, invites, timeouts, ledger,
                   boot, returned>>

\* The invites service: a code is redeemable once, for the group it was
\* issued for.
Redeemable(code, name) == <<code, name>> \in invites

Redeemed(code, name) == invites \ {<<code, name>>}

\* redeemInvite answers: the code is consumed, or the call ends with the error
\* of the invites service; then getGroup is issued.
AddMemberRedeem(s) ==
    /\ calls[s].op = "addMember" /\ calls[s].pc = "redeem"
    /\ IF Redeemable(calls[s].code, calls[s].name)
       THEN /\ invites' = Redeemed(calls[s].code, calls[s].name)
            /\ calls' = [calls EXCEPT ![s].pc = "find"]
            /\ UNCHANGED last
       ELSE /\ Ends(s, calls[s], "InviteRejected")
            /\ UNCHANGED invites
    /\ UNCHANGED <<store, cachedGroups, updatedGroups, timeouts, ledger, boot,
                   started, accepted, returned>>

\* getGroup answers; the member is pushed on the loaded entity and save is
\* issued.
AddMemberFind(s) ==
    /\ calls[s].op = "addMember" /\ calls[s].pc = "find"
    /\ IF calls[s].name \notin DOMAIN store THEN Ends(s, calls[s], "NotFound")
       ELSE /\ calls' = [calls EXCEPT
                  ![s].pc = "save",
                  ![s].group = [store[calls[s].name] EXCEPT
                                   !.members = Append(@, calls[s].member)]]
            /\ UNCHANGED last
    /\ UNCHANGED <<store, cachedGroups, updatedGroups, invites, timeouts, ledger,
                   boot, started, accepted, returned>>

\* The store writes the entity.
AddMemberSave(s) ==
    /\ calls[s].op = "addMember" /\ calls[s].pc = "save"
    /\ store' = Saved(calls[s].name, calls[s].group)
    /\ calls' = [calls EXCEPT ![s].pc = "saved"]
    /\ UNCHANGED <<cachedGroups, updatedGroups, invites, timeouts, ledger, boot,
                   last, started, accepted, returned>>

\* addMember as it would be with the contract update awaited: the call stays
\* suspended once it has handed the queue to zkGroups.updateGroups.
AddMemberResumeAwaitsUpdate(s) ==
    /\ calls[s].op = "addMember" /\ calls[s].pc = "saved"
    /\ LET name == calls[s].name
           cachedGroup == cachedGroups[name]
           added == TreeAddMember(cachedGroup, calls[s].member)
           queue == Append(updatedGroups, UpdateEntry(name, added))
       IN  IF IsFull(cachedGroup)
           THEN /\ Ends(s, calls[s], "TreeFull")
                /\ UNCHANGED <<cachedGroups, updatedGroups, ledger, returned>>
           ELSE /\ cachedGroups' = [cachedGroups EXCEPT ![name] = added]
                /\ updatedGroups' = queue
                /\ IF timeouts = "none"
                   THEN /\ UpdateContractGroupsCall(queue)
                        /\ calls' = [calls EXCEPT ![s].pc = "update"]
                        /\ UNCHANGED <<last, returned>>
                   ELSE /\ UNCHANGED ledger
                        /\ returned' = Append(returned, <<name, calls[s].member>>)
                        /\ Ends(s, calls[s], "ok")
    /\ UNCHANGED <<store, invites, timeouts, boot, started, accepted>>

\* addMember after the save: the leaf is inserted in the cached tree (which
\* throws when the tree is full), the new root is queued, the contract update
\* is started when the registry holds no timeout, and the group is returned.
AddMemberResume(s) ==
    /\ calls[s].op = "addMember" /\ calls[s].pc = "saved"
    /\ LET name == calls[s].name
           cachedGroup == cachedGroups[name]
           added == TreeAddMember(cachedGroup, calls[s].member)
           queue == Append(updatedGroups, UpdateEntry(name, added))
       IN  IF IsFull(cachedGroup)
           THEN /\ Ends(s, calls[s], "TreeFull")
                /\ UNCHANGED <<cachedGroups, updatedGroups, ledger, returned>>
           ELSE /\ cachedGroups' = [cachedGroups EXCEPT ![name] = added]
                /\ updatedGroups' = queue
                /\ IF timeouts = "none"
                   THEN UpdateContractGroupsCall(queue)
                   ELSE UNCHANGED ledger
                /\ returned' = Append(returned, <<name, calls[s].member>>)
                /\ Ends(s, calls[s], "ok")
    /\ UNCHANGED <<store, invites, timeouts, boot, started, accepted>>

(* --------------------------- the specification ------------------------- *)

Next ==
    \/ BootFind
    \/ BootLoad
    \/ MountTimeouts
    \/ TimeoutFires
    \/ \E i \in 1..(MaxCalls + 1), status \in BOOLEAN : LedgerResolves(i, status)
    \/ \E i \in 1..(MaxCalls + 1) : LedgerRejects(i)
    \/ \E s \in Slots :
          \/ \E dto \in CreateDtos, name \in Groups, admin \in CreateAdmins :
                CreateGroupCall(s, dto, name, admin)
          \/ CreateGroupSave(s)
          \/ CreateGroupResume(s)
          \/ \E dto \in UpdateDtos, name \in Groups, admin \in Admins :
                UpdateGroupCall(s, dto, name, admin)
          \/ UpdateGroupFind(s)
          \/ UpdateGroupSave(s)
          \/ \E code \in InviteCodes, name \in Groups, member \in Members :
                AddMemberCall(s, code, name, member)
          \/ AddMemberRedeem(s)
          \/ AddMemberFind(s)
          \/ AddMemberSave(s)
          \/ AddMemberResume(s)
          \/ SaveFails(s)

Spec == Init /\ [][Next]_vars

(* ------------------------- notions of the claims ----------------------- *)

\* The leaves a list of persisted members stands for.
LeavesOf(members) == [i \in 1..Len(members) |-> BigIntOf(members[i])]

IsPrefix(a, b) == Len(a) <= Len(b) /\ \A i \in 1..Len(a) : a[i] = b[i]

NoDuplicates(q) == \A i, j \in 1..Len(q) : i # j => q[i] # q[j]

\* An addMember call on the group is suspended at one of its awaits.
AddMemberInProgress(name) ==
    \E s \in Slots : calls[s].op = "addMember" /\ calls[s].name = name

\* C1: in every reachable state the leaves of each cached tree are a prefix of
\* the persisted members of its group, and equal to them when no addMember call
\* on the group is in progress.
C1_CacheMirrorsStore ==
    \A name \in DOMAIN cachedGroups :
        /\ name \in DOMAIN store
        /\ IsPrefix(cachedGroups[name].leaves, LeavesOf(store[name].members))
        /\ ~AddMemberInProgress(name) =>
              cachedGroups[name].leaves = LeavesOf(store[name].members)

\* C2: once addMember(g, m) has returned the group, isGroupMember(g, m) is true
\* and generateMerkleProof(g, m) returns the proof of m's leaf, whose root is
\* the root of g's cached tree.
C2_AddedMemberHasProof ==
    \A i \in 1..Len(returned) :
        LET name == returned[i][1]
            member == returned[i][2]
        IN  /\ HasTree(name)
            /\ isGroupMember(name, member)
            /\ ProofSucceeds(name, member)
            /\ generateMerkleProof(name, member).leaf = BigIntOf(member)
            /\ generateMerkleProof(name, member).root = Root(cachedGroups[name])
            /\ ProofRoot(generateMerkleProof(name, member)) = Root(cachedGroups[name])

\* C3: no identity commitment appears twice in the persisted members of a
\* group, nor twice among the leaves of its cached tree.
C3_NoDuplicateMember ==
    /\ \A name \in DOMAIN store : NoDuplicates(LeavesOf(store[name].members))
    /\ \A name \in DOMAIN cachedGroups : NoDuplicates(cachedGroups[name].leaves)

\* A step in which a call addMember(name, member) starts: it is suspended in a
\* slot afterwards, or it has ended at once and is the last call ended.
AddMemberStarts(name, member) ==
    /\ started' = started + 1
    /\ IF calls' = calls
       THEN last'.op = "addMember" /\ last'.name = name /\ last'.member = member
       ELSE \E s \in Slots :
               /\ calls'[s] # calls[s]
               /\ calls'[s].op = "addMember"
               /\ calls'[s].name = name
               /\ calls'[s].member = member

HasReturned(name, member) == \E i \in 1..Len(returned) : returned[i] = <<name, member>>

\* C4: an addMember(g, m) that starts after an addMember(g, m) has returned the
\* group ends at once with the BadRequestException of the duplicate member and
\* changes neither the store, the cached trees, the queue nor the invites.
C4_SecondAddIsRejected ==
    [][\A name \in Groups, member \in Members :
          (AddMemberStarts(name, member) /\ HasReturned(name, member)) =>
              /\ calls' = calls
              /\ last'.result = "BadRequest"
              /\ UNCHANGED <<store, cachedGroups, updatedGroups, invites, ledger>>]_vars

\* An addMember call is suspended in slot s with the given pc.
AddMemberAt(s, pc) == calls[s].op = "addMember" /\ calls[s].pc = pc

\* C5: an addMember whose invite redemption fails ends with the error of the
\* invites service; neither its membership check nor the failed redemption
\* changes the store, the cached trees or the queue, and nothing is handed to
\* the contract.
C5_InviteFailureChangesNothing ==
    [][/\ \A name \in Groups, member \in Members :
             (AddMemberStarts(name, member) /\ calls' # calls) =>
                 UNCHANGED <<store, cachedGroups, updatedGroups, ledger, invites>>
       /\ \A s \in Slots :
             (/\ AddMemberAt(s, "redeem")
              /\ calls'[s] # calls[s]
              /\ <<calls[s].code, calls[s].name>> \notin invites) =>
                 /\ calls'[s] = IdleCall
                 /\ last' = [op |-> "addMember", name |-> calls[s].name,
                             member |-> calls[s].member, result |-> "InviteRejected"]
                 /\ UNCHANGED <<store, cachedGroups, updatedGroups, ledger, invites>>]_vars

\* C5 witness: an addMember on a group with a cached tree has ended with the
\* error of the invites service.
C5_Witness ==
    /\ last.op = "addMember" /\ last.result = "InviteRejected"
    /\ last.name \in DOMAIN store
    /\ HasTree(last.name)

\* C6: an addMember that ends with an error after the invite was redeemed has
\* not written the store, the cached tree or the queue: it does not end with an
\* error once its save has written the member to the store.
C6_NoPartialStateOnError ==
    [][\A s \in Slots :
          (AddMemberAt(s, "saved") /\ calls'[s] = IdleCall) =>
              /\ last'.result = "ok"
              /\ cachedGroups'[calls[s].name].leaves # cachedGroups[calls[s].name].leaves
              /\ updatedGroups' # updatedGroups]_vars

\* C7: createGroup with a name the store already holds ends with the error of
\* the name being taken; the persisted record of that name and its cached tree
\* stay as they are, from the start of the call to its end.
C7_DuplicateCreateChangesNothing ==
    [][\A s \in Slots :
          /\ (/\ started' = started + 1
              /\ calls'[s] # calls[s]
              /\ calls'[s].op = "createGroup"
              /\ calls'[s].name \in DOMAIN store) =>
                 UNCHANGED <<store, cachedGroups, updatedGroups>>
          /\ (/\ calls[s].op = "createGroup" /\ calls[s].pc = "save"
              /\ calls[s].name \in DOMAIN store
              /\ calls'[s] # calls[s]) =>
                 /\ calls'[s] = IdleCall
                 /\ last'.op = "createGroup"
                 /\ last'.result \in {"AlreadyExists", "StoreError"}
                 /\ UNCHANGED <<store, cachedGroups, updatedGroups>>]_vars

\* C7 witness: a createGroup has been refused for a group that has members in
\* the store and leaves in its cached tree.
C7_Witness ==
    /\ last.op = "createGroup" /\ last.result = "AlreadyExists"
    /\ last.name \in DOMAIN store /\ HasTree(last.name)
    /\ store[last.name].members # <<>>
    /\ cachedGroups[last.name].leaves # <<>>

\* C8: updateGroup by another admin than the stored one ends with Unauthorized,
\* updateGroup on an unknown name with NotFound; in both cases the call writes
\* nothing to the store.
C8_RefusedUpdateWritesNothing ==
    [][\A s \in Slots :
          /\ (/\ started' = started + 1
              /\ calls'[s] # calls[s]
              /\ calls'[s].op = "updateGroup") => UNCHANGED store
          /\ (/\ calls[s].op = "updateGroup" /\ calls[s].pc = "find"
              /\ calls'[s] # calls[s]
              /\ calls[s].name \notin DOMAIN store) =>
                 /\ calls'[s] = IdleCall
                 /\ last'.op = "updateGroup" /\ last'.result = "NotFound"
                 /\ UNCHANGED store
          /\ (/\ calls[s].op = "updateGroup" /\ calls[s].pc = "find"
              /\ calls'[s] # calls[s]
              /\ calls[s].name \in DOMAIN store
              /\ store[calls[s].name].admin # calls[s].admin) =>
                 /\ calls'[s] = IdleCall
                 /\ last'.op = "updateGroup" /\ last'.result = "Unauthorized"
                 /\ UNCHANGED store]_vars

\* C8 witness: an updateGroup on an existing group has ended with Unauthorized.
C8_Witness ==
    /\ last.op = "updateGroup" /\ last.result = "Unauthorized"
    /\ last.name \in DOMAIN store
    /\ store[last.name].admin = "alice"

\* C9: when the timeout fires after N >= 1 addMember calls have returned, that
\* is the one execution of updateContractGroups: the N entries are handed to
\* zkGroups.updateGroups in one batch, the only one, and the queue is empty
\* when that execution has ended.
C9_OneBatchAtFirstTimeout ==
    [][/\ (timeouts = "pending" /\ timeouts' = "fired" /\ Len(returned) >= 1) =>
             /\ Len(ledger') = 1
             /\ Len(ledger'[1].batch) = Len(returned)
       /\ \A i \in 1..Len(ledger) :
             (/\ Len(ledger') = Len(ledger)
              /\ timeouts = "fired"
              /\ ledger[i].outcome = "pending"
              /\ ledger'[i].outcome # "pending"
              /\ Len(ledger[i].batch) = Len(returned)) => updatedGroups' = <<>>]_vars

\* C10: addMember returns in the very step in which it hands the queue to
\* zkGroups.updateGroups, whose outcome is still pending; and the outcome of
\* a contract update, whatever it is, changes neither a call in progress or
\* ended, nor the store, nor the cached trees.
C10_AddMemberIndependentOfLedger ==
    [][/\ (Len(ledger') > Len(ledger) /\ timeouts' = timeouts) =>
             /\ ledger'[Len(ledger')].outcome = "pending"
             /\ Len(returned') = Len(returned) + 1
             /\ last'.op = "addMember" /\ last'.result = "ok"
             /\ \E s \in Slots : AddMemberAt(s, "saved") /\ calls'[s] = IdleCall
       /\ \A i \in 1..Len(ledger) :
             (Len(ledger') = Len(ledger) /\ ledger'[i].outcome # ledger[i].outcome) =>
                 UNCHANGED <<store, cachedGroups, calls, last, returned>>]_vars

\* C10 witness: addMember has returned the group, its member is in the store
\* and in the cached tree, and the contract update it started has been
\* rejected or has reported failure.
C10_Witness ==
    /\ last.op = "addMember" /\ last.result = "ok"
    /\ HasTree(last.name) /\ isGroupMember(last.name, last.member)
    /\ \E i \in 1..Len(store[last.name].members) :
          store[last.name].members[i] = last.member
    /\ Len(ledger) = 1
    /\ ledger[1].outcome \in {"rejected", "failure"}
    /\ timeouts = "none"

\* The tree of a group at runtime: created by createGroup from the treeDepth of
\* the request, the members then inserted one by one by addMember.
RuntimeTree(group) ==
    TreeAddMembers(NewCachedGroup1(group.treeDepth), group.members)

\* C11: for every persisted group the service has cached, the root of the tree
\* the bootstrap builds from the record equals the root of the tree createGroup
\* creates for the same treeDepth once addMember has inserted the same members
\* in the same order.
C11_BootstrapFidelity ==
    \A name \in DOMAIN store \cap DOMAIN cachedGroups :
        BootFits(store[name]) =>
            Root(BootTree(name, store[name])) = Root(RuntimeTree(store[name]))

\* A step in which a call of the given operation starts.
CallStarts(op) ==
    /\ started' = started + 1
    /\ IF calls' = calls THEN last'.op = op
       ELSE \E s \in Slots : calls'[s] # calls[s] /\ calls'[s].op = op

\* C12: a createGroup or addMember that starts while the load of the
\* constructor has not completed ends at once with the not-ready error (the
\* service has no call that waits), and the step that completes the load
\* leaves every tree the map already holds as it is.
C12_BootstrapGuardsCache ==
    [][/\ ((CallStarts("createGroup") \/ CallStarts("addMember")) /\ boot.pc # "done") =>
             /\ calls' = calls
             /\ last'.result = "NotReady"
       /\ (boot.pc = "loaded" /\ boot'.pc # "loaded") =>
             \A name \in DOMAIN cachedGroups :
                 cachedGroups'[name] = cachedGroups[name]]_vars

\* The entries of a queue or batch, as a set.
Entries(q) == {q[k] : k \in 1..Len(q)}

\* The entry has been handed to zkGroups.updateGroups in some batch.
Submitted(entry, batches) ==
    \E i \in 1..Len(batches) : entry \in Entries(batches[i].batch)

\* A step in which zkGroups.updateGroups answers for batch i with a status.
FlushEnds(i) ==
    /\ Len(ledger') = Len(ledger)
    /\ ledger[i].outcome = "pending"
    /\ ledger'[i].outcome \in {"success", "failure"}

\* C13: the execution of updateContractGroups that submitted batch i removes
\* from the queue the entries of that batch and no other: an entry queued while
\* the submission was in flight is still queued afterwards; and no entry leaves
\* the queue without being in a batch handed to zkGroups.updateGroups.
C13_FlushRemovesOnlyItsBatch ==
    [][/\ \A i \in 1..Len(ledger) :
             FlushEnds(i) =>
                 /\ Entries(updatedGroups') \cap Entries(ledger[i].batch) = {}
                 /\ Entries(updatedGroups) \ Entries(ledger[i].batch)
                        \subseteq Entries(updatedGroups')
       /\ \A entry \in Entries(updatedGroups) \ Entries(updatedGroups') :
             Submitted(entry, ledger')]_vars

\* C14: the step in which addMember returns the group hands nothing to
\* zkGroups.updateGroups itself; a timeout that is pending stays the one pending
\* timeout, and otherwise the step leaves one timeout pending.
C14_PublicationDeferredOnce ==
    [][Len(returned') > Len(returned) =>
          /\ ledger' = ledger
          /\ timeouts = "pending" => UNCHANGED timeouts
          /\ timeouts # "pending" => timeouts' = "pending"]_vars

\* The executions of updateContractGroups suspended at the await of
\* zkGroups.updateGroups.
FlushesInProgress == {i \in 1..Len(ledger) : ledger[i].outcome = "pending"}

\* C15: in every reachable state at most one execution of updateContractGroups
\* is awaiting zkGroups.updateGroups.
C15_SingleFlush == Cardinality(FlushesInProgress) <= 1

\* The batches whose submission reported failure or was rejected.
FailedBatches(batches) ==
    {i \in 1..Len(batches) : batches[i].outcome \in {"failure", "rejected"}}

\* C16: once the submission of a batch has reported failure or has been
\* rejected, no entry of that batch is in the queue, and no batch handed to
\* zkGroups.updateGroups afterwards holds an entry of it.
C16_FailedBatchIsDropped ==
    [][\A i \in FailedBatches(ledger') :
          /\ Entries(updatedGroups') \cap Entries(ledger'[i].batch) = {}
          /\ \A j \in (Len(ledger) + 1)..Len(ledger') :
                Entries(ledger'[j].batch) \cap Entries(ledger'[i].batch) = {}]_vars

\* The position of the first occurrence of x in the sequence q, 0 when there
\* is none.
PositionIn(q, x) ==
    IF \E k \in 1..Len(q) : q[k] = x
    THEN CHOOSE k \in 1..Len(q) : q[k] = x /\ \A j \in 1..(k - 1) : q[j] # x
    ELSE 0

\* addMember(name, a) was called before addMember(name, b), each once, for two
\* different commitments, and both have returned the group.
AcceptedInOrder(name, a, b) ==
    /\ BigIntOf(a) # BigIntOf(b)
    /\ Cardinality({k \in 1..Len(accepted) : accepted[k] \in {<<name, a>>, <<name, b>>}}) = 2
    /\ PositionIn(accepted, <<name, a>>) > 0
    /\ PositionIn(accepted, <<name, a>>) < PositionIn(accepted, <<name, b>>)
    /\ HasReturned(name, a) /\ HasReturned(name, b)

\* C17: when addMember(g, a) was called before addMember(g, b) and both have
\* returned the group, a stands before b in the persisted members of g that
\* hold both, and the leaf of a has the lower index in the cached tree of g that
\* holds both.
C17_AcceptanceOrder ==
    \A name \in Groups, a \in Members, b \in Members :
        AcceptedInOrder(name, a, b) =>
            /\ (/\ name \in DOMAIN store
                /\ PositionIn(store[name].members, a) > 0
                /\ PositionIn(store[name].members, b) > 0) =>
                   PositionIn(store[name].members, a) < PositionIn(store[name].members, b)
            /\ (/\ HasTree(name)
                /\ isGroupMember(name, a)
                /\ isGroupMember(name, b)) =>
                   IndexOf(cachedGroups[name], BigIntOf(a)) <
                       IndexOf(cachedGroups[name], BigIntOf(b))

\* C18: the step in which an updateGroup ends with success writes the
\* description, treeDepth and tag of the request into the persisted record of
\* its group and nothing else: admin and members of the record stay as the
\* store holds them, and the other records, the cached trees and the queue are
\* unchanged.
C18_UpdateGroupFrame ==
    [][\A s \in Slots :
          (/\ calls[s].op = "updateGroup" /\ calls[s].pc = "save"
           /\ calls'[s] = IdleCall
           /\ last'.result = "ok") =>
              /\ DOMAIN store' = DOMAIN store
              /\ store'[calls[s].name] =
                    [store[calls[s].name] EXCEPT
                        !.description = calls[s].dto.description,
                        !.treeDepth = calls[s].dto.treeDepth,
                        !.tag = calls[s].dto.tag]
              /\ \A name \in DOMAIN store \ {calls[s].name} : store'[name] = store[name]
              /\ UNCHANGED <<cachedGroups, updatedGroups>>]_vars

\* C19: the step in which addMember returns the group inserts the leaf of its
\* member in the cached tree of its group and appends one entry at the tail of
\* the queue, whose id is the id of the group name and whose fingerprint is the
\* root of that tree after the insertion; the entries before it stay as they
\* are, and no other step of any call, timer or answer appends to the queue.
C19_OneEntryPerAddMember ==
    [][IF \E s \in Slots :
             AddMemberAt(s, "saved") /\ calls'[s] = IdleCall /\ last'.result = "ok"
       THEN \E s \in Slots :
               /\ AddMemberAt(s, "saved") /\ calls'[s] = IdleCall
               /\ cachedGroups'[calls[s].name].leaves =
                     Append(cachedGroups[calls[s].name].leaves, BigIntOf(calls[s].member))
               /\ updatedGroups' =
                     Append(updatedGroups,
                            [id |-> GroupId(calls[s].name),
                             fingerprint |-> Root(cachedGroups'[calls[s].name])])
       ELSE IsPrefix(updatedGroups', updatedGroups)]_vars

\* C19 witness: addMember has returned the group twice for one group created
\* by createGroup; the queue holds both entries of that group, with different
\* roots, the last one the root of the cached tree.
C19_Witness ==
    /\ last.op = "addMember" /\ last.result = "ok"
    /\ HasTree(last.name)
    /\ cachedGroups[last.name].id # GroupId(last.name)
    /\ Len(updatedGroups) = 2
    /\ updatedGroups[1].id = GroupId(last.name)
    /\ updatedGroups[2].id = GroupId(last.name)
    /\ updatedGroups[1].fingerprint # updatedGroups[2].fingerprint
    /\ updatedGroups[2].fingerprint = Root(cachedGroups[last.name])

\* An execution of updateContractGroups is still to come: the timeout is
\* pending, or not registered yet, in which case it will be and the next
\* addMember starts an execution itself.
FlushToCome == timeouts \in {"none", "pending"}

\* C20: every entry in the queue has been handed to zkGroups.updateGroups in
\* some batch or has an execution of updateContractGroups still to come: no
\* entry is queued in a state from which nothing ever submits it.
C20_QueuedEntryHasFlush ==
    \A entry \in Entries(updatedGroups) :
        Submitted(entry, ledger) \/ FlushToCome

====
